---- MODULE Spec2Model ----
(***************************************************************************)
(* Conway's Game of Life as implemented by src/src/App.tsx: the App        *)
(* component (size input, cell list, read-only flag, interval timer) and   *)
(* its CellElement children (one isAlive flag per cell, kept by React      *)
(* under key = id).                                                        *)
(*                                                                         *)
(* JavaScript runs each handler to completion, so every handler is one     *)
(* action.  A disabled control or an onClick of undefined delivers no      *)
(* event, so the render's disabled/readonly attributes are the guards of   *)
(* the actions they protect.  executionTime only feeds the timing display  *)
(* and gridSize only the width of the grid's box; neither is read by any   *)
(* handler, and neither is a variable here.                                *)
(***************************************************************************)
EXTENDS Integers, Sequences, FiniteSets, TLC

\* ---------------------------------------------------------------- constants
DEFAULT_GRID_SIZE == 5

\* ------------------------------------------------------------------- bounds
\* largest number typed into the size input
MaxSize == 6
\* the user clicks (and Math.random() revives) only cells with id <= MaxClickId
MaxClickId == 4
\* the user does not revive a cell while MaxAlive cells are alive
MaxAlive == 1
\* Math.random() revives at most MaxRandom cells in one Random Select
MaxRandom == 1
\* the interval fires at most MaxGenerations times before the page is closed
MaxGenerations == 2
\* cap on simultaneously live intervals
MaxTimers == 2
\* SpecGen starts from grids whose live cells have id <= GenSeedId ...
GenSeedId == 9
\* ... and number at most GenAlive
GenAlive == 4

\* parseInt of a non-numeric string: a value below every number typed, which
\* every comparison below treats as JavaScript treats NaN
NaN == (-1) - 1

\* what parseInt(value) may store: NaN, a negative number, zero, 1..MaxSize
SizeInputs == {NaN} \cup ((-1)..MaxSize)

VARIABLES
    size,           \* App state: value of the size input
    cells,          \* App state: the list of cell props, index = id
    alive,          \* CellElement state isAlive of the cell with id = index
    handles,        \* the isAlive that getData of the cell's current handle returns
    cellRefs,       \* cellRefs.current: TRUE = a mounted cell's handle, FALSE = null
    readonly,       \* App state
    timers,         \* number of live setInterval timers
    closure,        \* the size values that the handleNewGeneration closures of
                    \* the live intervals hold
    callback,       \* callback.current names a "live" interval or none ("dead":
                    \* undefined, or the id of a cleared interval)
    mounted,        \* the App component is mounted
    generation,     \* history: how many times the interval has fired
    lastTick,       \* history: the grid the latest generation started from, kept
                    \* until the grid, the size or the timer is next set
    lastEdit        \* history: the click or Reset that was the latest step

vars == <<size, cells, alive, handles, cellRefs, readonly, timers, closure, callback,
          mounted, generation, lastTick, lastEdit>>

\* ------------------------------------------------------------------ helpers
\* JavaScript's  0 < v  (false for NaN)
IsPositive(v) == v # NaN /\ v > 0

Max2(a, b) == IF a >= b THEN a ELSE b

AliveCount(a) == Cardinality({k \in 1..Len(a) : a[k]})

\* side length of the generated grid
SideOf(cs) == IF cs = <<>> THEN 0 ELSE cs[Len(cs)].x + 1

\* ------------------------------------------------------------ handleGenerate
\* the list built by the two nested loops: x outer, y inner, id = index
GenerateCells(length) ==
    IF IsPositive(length)
    THEN [k \in 1..(length * length) |->
              [x |-> (k - 1) \div length, y |-> (k - 1) % length]]
    ELSE <<>>

\* React keeps the state of a CellElement whose key (id) is in both lists and
\* mounts the others with useState(isInitialAlive), isInitialAlive = false
KeyedState(old, count) ==
    [k \in 1..count |-> IF k <= Len(old) THEN old[k] ELSE FALSE]

\* ref callbacks: index i < cells.length gets the element, a removed
\* element's callback stores null at its index; the array never shrinks
AttachRefs(refs, count) ==
    [i \in 1..Max2(Len(refs), count) |-> i <= count]

\* the handles after React has committed the cells' states a: a cell makes a
\* new handle (whose getData closes over its isAlive) when it mounts, when its
\* isAlive is not the one its handle was made with, and when App has rendered
\* (readonly, or the ref function App passes down, has changed)
useImperativeHandle_readonlyOnly(old, a, rendered) ==
    [k \in 1..Len(a) |-> IF k > Len(old) \/ rendered THEN a[k] ELSE old[k]]

useImperativeHandle(old, a, rendered) ==
    [k \in 1..Len(a) |->
        IF k > Len(old) \/ old[k] # a[k] \/ rendered THEN a[k] ELSE old[k]]

\* ----------------------------------------------------- handleNewGeneration
\* cellRefs.current.map((cell) => cell?.getData())
Snapshot(refs, cs, a) ==
    [i \in 1..Len(refs) |->
        IF refs[i]
        THEN [defined |-> TRUE, x |-> cs[i].x, y |-> cs[i].y, isAlive |-> a[i]]
        ELSE [defined |-> FALSE, x |-> 0, y |-> 0, isAlive |-> FALSE]]

\* cells.find(({ coordinates: { x, y } }) => x === nX && y === nY): the scan
\* stops at the first entry that matches or is undefined; destructuring an
\* undefined entry throws.  index is the entry found, 0 for none
find(snap, nX, nY) ==
    LET stops == {i \in 1..Len(snap) :
                     ~snap[i].defined \/ (snap[i].x = nX /\ snap[i].y = nY)}
        first == CHOOSE i \in stops : \A j \in stops : i <= j
    IN  IF stops = {} THEN [threw |-> FALSE, index |-> 0]
        ELSE IF snap[first].defined THEN [threw |-> FALSE, index |-> first]
        ELSE [threw |-> TRUE, index |-> 0]

\* the isAlive an entry of the snapshot array holds; live is the cells'
\* state as written so far by the running pass
getDataIsAlive_live(snap, live, idx) == live[idx]

getDataIsAlive(snap, live, idx) == snap[idx].isAlive

neighbors == << <<-1, -1>>, <<-1, 0>>, <<-1, 1>>, <<0, -1>>,
                <<0, 1>>, <<1, -1>>, <<1, 0>>, <<1, 1>> >>

\* (x + dx + size) % size
wrap(v, d, sz) == (v + d + sz) % sz

RECURSIVE CountFrom(_, _, _, _, _, _)
CountFrom(snap, live, sz, x, y, i) ==
    IF i > Len(neighbors) THEN [threw |-> FALSE, count |-> 0]
    ELSE LET f == find(snap, wrap(x, neighbors[i][1], sz),
                             wrap(y, neighbors[i][2], sz))
         IN  IF f.threw THEN [threw |-> TRUE, count |-> 0]
             ELSE LET rest == CountFrom(snap, live, sz, x, y, i + 1)
                      one  == IF f.index # 0 /\ getDataIsAlive(snap, live, f.index)
                              THEN 1 ELSE 0
                  IN  [threw |-> rest.threw, count |-> one + rest.count]

\* makeCountAliveNeighbors(cells)(x, y), size taken from the closure
countAliveNeighbors(snap, live, sz, x, y) == CountFrom(snap, live, sz, x, y, 1)

\* the value handed to setIsAlive
nextIsAlive(isAlive, n) ==
    IF isAlive THEN n = 2 \/ n = 3 ELSE n = 3

\* the two nested loops from position k on (i = k div size, j = k mod size);
\* live collects the setIsAlive calls, a throw ends the handler
RECURSIVE Pass(_, _, _, _)
Pass(snap, live, sz, k) ==
    IF k >= sz * sz THEN [threw |-> FALSE, alive |-> live]
    ELSE LET i == k \div sz
             j == k % sz
             n == countAliveNeighbors(snap, live, sz, i, j)
             c == find(snap, i, j)
         IN  IF n.threw \/ c.threw THEN [threw |-> TRUE, alive |-> live]
             ELSE IF c.index = 0 THEN Pass(snap, live, sz, k + 1)
             ELSE Pass(snap,
                       [live EXCEPT ![c.index] =
                           nextIsAlive(getDataIsAlive(snap, live, c.index), n.count)],
                       sz, k + 1)

\* h: what the handles' getData return, a: the cells' states
handleNewGeneration(refs, cs, h, a, sz) ==
    IF IsPositive(sz) THEN Pass(Snapshot(refs, cs, h), a, sz, 0)
    ELSE [threw |-> FALSE, alive |-> a]

NoTick == [threw |-> FALSE, before |-> <<>>, ran |-> FALSE]

NoEdit == [op |-> "none", idx |-> 0, before |-> <<>>, n |-> 0]

\* --------------------------------------------------------------------- Init
\* the state after the mount effect handleGenerate(DEFAULT_GRID_SIZE)
Init ==
    /\ size = DEFAULT_GRID_SIZE
    /\ cells = GenerateCells(DEFAULT_GRID_SIZE)
    /\ alive = KeyedState(<<>>, DEFAULT_GRID_SIZE * DEFAULT_GRID_SIZE)
    /\ handles = useImperativeHandle(<<>>, alive, TRUE)
    /\ cellRefs = AttachRefs(<<>>, DEFAULT_GRID_SIZE * DEFAULT_GRID_SIZE)
    /\ readonly = FALSE
    /\ timers = 0
    /\ closure = {}
    /\ callback = "dead"
    /\ mounted = TRUE
    /\ generation = 0
    /\ lastTick = NoTick
    /\ lastEdit = NoEdit

\* ------------------------------------------------------------------ actions
\* the size input is disabled while readonly
ChangeSizeEnabled_always == TRUE

ChangeSizeEnabled == ~readonly

handleChangeSize(value) ==
    /\ mounted /\ ChangeSizeEnabled
    /\ size' = value
    /\ handles' = useImperativeHandle(handles, alive, size' # size)
    /\ lastTick' = NoTick
    /\ lastEdit' = NoEdit
    /\ UNCHANGED <<cells, alive, cellRefs, readonly, timers, closure, callback,
                   mounted, generation>>

\* the Generate button is disabled while readonly
GenerateEnabled == ~readonly

handleGenerate(length) ==
    /\ mounted /\ GenerateEnabled
    /\ cells' = GenerateCells(length)
    /\ alive' = KeyedState(alive, Len(GenerateCells(length)))
    /\ handles' = useImperativeHandle(handles, alive', TRUE)
    /\ cellRefs' = AttachRefs(cellRefs, Len(GenerateCells(length)))
    /\ lastTick' = NoTick
    /\ lastEdit' = NoEdit
    /\ UNCHANGED <<size, readonly, timers, closure, callback, mounted, generation>>

ClickGenerate == handleGenerate(size)

\* setIsAlive((prev) => !prev)
togglePrev_on(prev) == TRUE

togglePrev(prev) == ~prev

\* onClick = readonly ? undefined : toggleAlive
ToggleEnabled == ~readonly

toggleAlive(idx) ==
    /\ mounted /\ ToggleEnabled
    /\ idx <= MaxClickId
    /\ alive[idx] \/ AliveCount(alive) < MaxAlive
    /\ alive' = [alive EXCEPT ![idx] = togglePrev(alive[idx])]
    /\ handles' = useImperativeHandle(handles, alive', FALSE)
    /\ lastTick' = NoTick
    /\ lastEdit' = IF lastEdit.op = "toggle" /\ lastEdit.idx = idx /\ lastEdit.n = 1
                   THEN [lastEdit EXCEPT !.n = 2]
                   ELSE [op |-> "toggle", idx |-> idx, before |-> alive, n |-> 1]
    /\ UNCHANGED <<size, cells, cellRefs, readonly, timers, closure, callback,
                   mounted, generation>>

\* cellRefs.current.forEach((cell) => cell?.getData()?.setIsAlive(v)), v true
\* for the cells in S: every cell that has a handle is set, null entries are
\* skipped
forEachSetIsAlive_first(refs, a, S) ==
    [k \in 1..Len(a) |-> IF refs[k] /\ k = 1 THEN k \in S ELSE a[k]]

forEachSetIsAlive(refs, a, S) ==
    [k \in 1..Len(a) |-> IF refs[k] THEN k \in S ELSE a[k]]

\* the Reset button is disabled while readonly
ResetEnabled_always == TRUE

ResetEnabled == ~readonly

handleReset ==
    /\ mounted /\ ResetEnabled
    /\ alive' = forEachSetIsAlive(cellRefs, alive, {})
    /\ handles' = useImperativeHandle(handles, alive', FALSE)
    /\ lastTick' = NoTick
    /\ lastEdit' = [op |-> "reset", idx |-> 0, before |-> alive, n |-> 1]
    /\ UNCHANGED <<size, cells, cellRefs, readonly, timers, closure, callback,
                   mounted, generation>>

\* the Random Select button is disabled while readonly
RandomEnabled == ~readonly

\* the cells for which Math.random() <= 0.5 came out true
RandomOutcomes ==
    {S \in SUBSET {k \in 1..Len(cells) : k <= MaxClickId} :
        Cardinality(S) <= MaxRandom}

handleRandomSelect(S) ==
    /\ mounted /\ RandomEnabled
    /\ alive' = forEachSetIsAlive(cellRefs, alive, S)
    /\ handles' = useImperativeHandle(handles, alive', FALSE)
    /\ lastTick' = NoTick
    /\ lastEdit' = NoEdit
    /\ UNCHANGED <<size, cells, cellRefs, readonly, timers, closure, callback,
                   mounted, generation>>

\* the toggle button shows Start only while not readonly
StartEnabled_always == timers < MaxTimers

StartEnabled == ~readonly

handleStart_noInterval ==
    /\ mounted /\ StartEnabled
    /\ readonly' = TRUE
    /\ handles' = useImperativeHandle(handles, alive, TRUE)
    /\ lastTick' = NoTick
    /\ lastEdit' = NoEdit
    /\ UNCHANGED <<size, cells, alive, cellRefs, timers, closure, callback, mounted,
                   generation>>

handleStart ==
    /\ mounted /\ StartEnabled
    /\ readonly' = TRUE
    /\ timers' = timers + 1
    /\ closure' = closure \cup {size}
    /\ callback' = "live"
    /\ handles' = useImperativeHandle(handles, alive, TRUE)
    /\ lastTick' = NoTick
    /\ lastEdit' = NoEdit
    /\ UNCHANGED <<size, cells, alive, cellRefs, mounted, generation>>

\* clearInterval(callback.current): ends the timer the ref names, if live
clearInterval_noop(n, cb) == n

clearInterval(n, cb) == IF cb = "live" THEN n - 1 ELSE n

cleared(cb) == IF cb = "live" THEN "dead" ELSE cb

\* the toggle button shows Stop only while readonly
handleStop_noClear ==
    /\ mounted /\ readonly
    /\ readonly' = FALSE
    /\ handles' = useImperativeHandle(handles, alive, TRUE)
    /\ lastEdit' = NoEdit
    /\ UNCHANGED <<size, cells, alive, cellRefs, timers, closure, callback, mounted,
                   generation, lastTick>>

handleStop ==
    /\ mounted /\ readonly
    /\ readonly' = FALSE
    /\ timers' = clearInterval(timers, callback)
    /\ closure' = IF timers' = 0 THEN {} ELSE closure
    /\ callback' = cleared(callback)
    /\ handles' = useImperativeHandle(handles, alive, TRUE)
    /\ lastEdit' = NoEdit
    /\ UNCHANGED <<size, cells, alive, cellRefs, mounted, generation, lastTick>>

\* a live interval calls back
setIntervalFires ==
    /\ timers > 0
    /\ generation < MaxGenerations
    /\ generation' = generation + 1

\* the callback is the handleNewGeneration that handleStart captured; it reads
\* the cells through their handles, and its setExecutionTime renders App if
\* the time measured is new
Tick ==
    /\ setIntervalFires
    /\ \E sz \in closure :
          LET r == handleNewGeneration(cellRefs, cells, handles, alive, sz)
          IN  /\ alive' = r.alive
              /\ lastTick' = [threw |-> r.threw, before |-> handles, ran |-> TRUE]
              /\ \E timeIsNew \in BOOLEAN :
                    handles' = useImperativeHandle(handles, alive', timeIsNew)
    /\ lastEdit' = NoEdit
    /\ UNCHANGED <<size, cells, cellRefs, readonly, timers, closure, callback, mounted>>

\* the unmount effect's cleanup
Unmount_noCleanup ==
    /\ mounted
    /\ mounted' = FALSE
    /\ lastEdit' = NoEdit
    /\ UNCHANGED <<size, cells, alive, handles, cellRefs, readonly, timers, closure,
                   callback, generation, lastTick>>

Unmount ==
    /\ mounted
    /\ mounted' = FALSE
    /\ timers' = clearInterval(timers, callback)
    /\ closure' = IF timers' = 0 THEN {} ELSE closure
    /\ callback' = cleared(callback)
    /\ lastEdit' = NoEdit
    /\ UNCHANGED <<size, cells, alive, handles, cellRefs, readonly, generation,
                   lastTick>>

Next ==
    \/ \E v \in SizeInputs : handleChangeSize(v)
    \/ ClickGenerate
    \/ \E idx \in 1..Len(cells) : toggleAlive(idx)
    \/ handleReset
    \/ \E S \in RandomOutcomes : handleRandomSelect(S)
    \/ handleStart
    \/ handleStop
    \/ Tick
    \/ Unmount

Spec == Init /\ [][Next]_vars

\* a live interval fires again and again: setInterval calls back every second
\* until it is cleared
SpecFair == Spec /\ WF_generation(setIntervalFires)

\* ------------------------------------------------- the generation on its own
\* handleNewGeneration is a function of the grid, the refs and the size.
\* SpecGen takes it from Running states that Generate, clicks on cells, the
\* size input and Start lead to from Init (grid side 1..DEFAULT_GRID_SIZE, so
\* cellRefs as long as the first grid; size input any of SizeInputs; live
\* cells among the first GenSeedId, at most GenAlive of them) and lets the
\* interval fire.
GenSeeds(count) ==
    {S \in SUBSET {k \in 1..count : k <= GenSeedId} : Cardinality(S) <= GenAlive}

GenInit ==
    \E n \in 1..DEFAULT_GRID_SIZE, sz \in SizeInputs :
        \E S \in GenSeeds(n * n) :
            /\ size = sz
            /\ cells = GenerateCells(n)
            /\ alive = [k \in 1..(n * n) |-> k \in S]
            /\ handles = useImperativeHandle(<<>>, alive, TRUE)
            /\ cellRefs = AttachRefs(AttachRefs(<<>>, DEFAULT_GRID_SIZE * DEFAULT_GRID_SIZE),
                                     n * n)
            /\ readonly = TRUE
            /\ timers = 1
            /\ closure = {sz}
            /\ callback = "live"
            /\ mounted = TRUE
            /\ generation = 0
            /\ lastTick = NoTick
            /\ lastEdit = NoEdit

GenNext == Tick

SpecGen == GenInit /\ [][GenNext]_vars

\* ==================================================================== claims
\* Game of Life on the torus of side n, on the grid as a sequence by id
CellAt(n, x, y) == x * n + y + 1

TorusCount(grid, n, x, y) ==
    Cardinality({i \in 1..Len(neighbors) :
        grid[CellAt(n, (x + neighbors[i][1] + n) % n, (y + neighbors[i][2] + n) % n)]})

LifeRule(wasAlive, n) == (wasAlive /\ n \in {2, 3}) \/ (~wasAlive /\ n = 3)

\* the snapshot the latest generation worked on
SnapshotBefore == Snapshot(cellRefs, cells, lastTick.before)

\* the cell with id k lies inside the size x size square the loops visit
Visited(k) == IsPositive(size) /\ cells[k].x < size /\ cells[k].y < size

\* C1: after a generation every cell of the grid is alive iff it was alive
\* with 2 or 3 live neighbours, or dead with exactly 3, the neighbours counted
\* on the torus of the grid's side, in the grid as it was before.
C1_RuleOnEveryCell ==
    lastTick.ran =>
        \A k \in 1..Len(cells) :
            alive[k] = LifeRule(lastTick.before[k],
                                TorusCount(lastTick.before, SideOf(cells),
                                           cells[k].x, cells[k].y))

\* C2: every call countAliveNeighbors(x, y) of a generation returns the number
\* of live cells among the 8 coordinates wrapped modulo the side of the grid
\* generated (the calls looked at are those for cells of the grid inside the
\* size x size square the loops visit; a call that throws returns nothing).
C2_CountWrapsOnGridSide ==
    (lastTick.ran /\ IsPositive(size)) =>
        \A k \in {c \in 1..Len(cells) : Visited(c)} :
            LET r == countAliveNeighbors(SnapshotBefore, lastTick.before, size,
                                         cells[k].x, cells[k].y)
            IN  /\ ~r.threw
                /\ r.count \in 0..8
                /\ r.count = TorusCount(lastTick.before, SideOf(cells),
                                        cells[k].x, cells[k].y)

\* C3: every isAlive a generation reads is the value the cell had when the
\* generation began, whatever it has written by then: each cell it visits
\* ends as nextIsAlive of its own earlier value and the count over the
\* earlier grid, each cell it does not visit (and every cell, if it threw)
\* keeps its value.
C3_ReadsAreFromSnapshot ==
    lastTick.ran =>
        \A k \in 1..Len(cells) :
            alive[k] =
                IF Visited(k) /\ ~lastTick.threw
                THEN nextIsAlive(lastTick.before[k],
                                 countAliveNeighbors(SnapshotBefore, lastTick.before,
                                                     size, cells[k].x, cells[k].y).count)
                ELSE lastTick.before[k]

\* a generation wrote a new value to a cell c and later read c again, as a
\* neighbour of a cell d it visited after c, and left d alive
C3_Witness ==
    /\ lastTick.ran /\ ~lastTick.threw
    /\ \E c, d \in 1..Len(cells) :
          /\ c < d /\ Visited(c) /\ Visited(d)
          /\ alive[c] # lastTick.before[c]
          /\ alive[d]
          /\ \E i \in 1..Len(neighbors) :
                /\ cells[c].x = wrap(cells[d].x, neighbors[i][1], size)
                /\ cells[c].y = wrap(cells[d].y, neighbors[i][2], size)

\* a click on a cell, Reset or Random Select
EditStep ==
    \/ \E idx \in 1..Len(cells) : toggleAlive(idx)
    \/ handleReset
    \/ \E S \in RandomOutcomes : handleRandomSelect(S)

\* C4: while Running no toggle, randomize or reset goes through, and no step
\* but the timer's generation changes a cell.
C4_EditsRefusedWhileRunning ==
    [][readonly => (~EditStep /\ (alive' # alive => generation' # generation))]_vars

\* Running with a live cell the user could click
C4_Witness ==
    /\ mounted /\ readonly /\ timers > 0
    /\ \E k \in 1..Len(cells) : k <= MaxClickId /\ alive[k]

\* C5: the interval never fires while the state is Stopped.
C5_NoTickWhileStopped ==
    [][~readonly => generation' = generation]_vars

\* Stopped right after a generation, with the page still open and the
\* interval's budget not used up
C5_Witness ==
    /\ mounted /\ ~readonly /\ lastTick.ran
    /\ generation < MaxGenerations
    /\ \E k \in 1..Len(cells) : alive[k]

\* C6: Generate with a size that is not a positive number leaves the grid as
\* it was.
C6_BadSizeKeepsGrid ==
    [][(ClickGenerate /\ ~IsPositive(size)) => (cells' = cells /\ alive' = alive)]_vars

\* C7: after Generate with a size >= 1 every cell of the grid is dead.
C7_GeneratedGridIsDead ==
    [][(ClickGenerate /\ IsPositive(size)) =>
          \A k \in 1..Len(alive') : ~alive'[k]]_vars

\* C8: at most one interval is ever live, and from a Running state no step
\* creates one, or changes what callback.current names for as long as the
\* page stays open and Running.
C8_StartRefusedWhileRunning ==
    /\ [](timers <= 1)
    /\ [][readonly => /\ timers' <= timers
                      /\ (readonly' /\ mounted') =>
                             (timers' = timers /\ callback' = callback)]_vars

\* Running on one live interval, after at least one generation
C8_Witness ==
    /\ mounted /\ readonly /\ timers = 1 /\ callback = "live" /\ generation > 0

\* C9: on a grid of side 1 the call countAliveNeighbors(0, 0) of a generation
\* returns 8 if the cell is alive and 0 if it is dead, and does not throw.
C9_SideOneCountsItself ==
    (lastTick.ran /\ IsPositive(size) /\ SideOf(cells) = 1) =>
        LET r == countAliveNeighbors(SnapshotBefore, lastTick.before, size, 0, 0)
        IN  /\ ~r.threw
            /\ r.count = IF lastTick.before[1] THEN 8 ELSE 0

\* the 3 x 3 grid whose live cells are (1,1), (1,2), (2,1), (2,2)
Block3 == [k \in 1..9 |-> k \in {CellAt(3, 1, 1), CellAt(3, 1, 2),
                                   CellAt(3, 2, 1), CellAt(3, 2, 2)}]

\* C10: a generation leaves the 3 x 3 grid with the 2 x 2 block unchanged.
C10_BlockIsStill ==
    (lastTick.ran /\ SideOf(cells) = 3 /\ lastTick.before = Block3) =>
        alive = lastTick.before

\* the grid of side 5 whose live cells are (x, y-1), (x, y), (x, y+1): three
\* adjacent cells of one displayed row (the cells are laid out x by x)
HLine(x, y) == [k \in 1..25 |-> k \in {CellAt(5, x, (y + 4) % 5), CellAt(5, x, y),
                                       CellAt(5, x, (y + 1) % 5)}]

\* ... and (x-1, y), (x, y), (x+1, y): the vertical line through the same centre
VLine(x, y) == [k \in 1..25 |-> k \in {CellAt(5, (x + 4) % 5, y), CellAt(5, x, y),
                                       CellAt(5, (x + 1) % 5, y)}]

\* C11: on a grid of side 5 a generation turns a horizontal line of three
\* live cells into the vertical line of three through the same centre, and
\* the generation after it gives the horizontal line back.
C11_BlinkerOscillates ==
    /\ [](\A x, y \in 0..4 :
            (lastTick.ran /\ SideOf(cells) = 5 /\ lastTick.before = HLine(x, y))
                => alive = VLine(x, y))
    /\ [][\A x, y \in 0..4 :
            (/\ lastTick.ran /\ SideOf(cells) = 5 /\ lastTick.before = HLine(x, y)
             /\ generation' # generation)
                => alive' = lastTick.before]_vars

\* C12: the cells of the grid cover the coordinates [0,N) x [0,N) for some
\* N >= 1, each coordinate exactly once.
C12_GridCoversSquare ==
    \E N \in 1..Len(cells) :
        /\ Len(cells) = N * N
        /\ \A x, y \in 0..(N - 1) :
              Cardinality({k \in 1..Len(cells) : cells[k].x = x /\ cells[k].y = y}) = 1

\* C13: whenever the interval is live every handle returns its cell's current
\* isAlive (the writes of the generation before, and of every click, Reset and
\* Random Select, are applied), and a generation starts from exactly those
\* values.
C13_TicksReadSettledFlags ==
    /\ [](timers > 0 => handles = alive)
    /\ [][generation' # generation =>
              (handles = alive /\ lastTick'.before = alive)]_vars

\* a generation has read a cell that a click had made alive, and killed it
C13_Witness ==
    /\ lastTick.ran
    /\ \E k \in 1..Len(cells) : lastTick.before[k] /\ ~alive[k] /\ ~handles[k]

\* C14: a click on a cell, possible only while Stopped, flips that cell's
\* isAlive and leaves every other cell, the cells' coordinates, the size and
\* the Stopped state as they were; a second click on the same cell right
\* after gives the grid back.
C14_ToggleFlipsOneCell ==
    /\ [](lastEdit.op = "toggle" =>
            /\ Len(alive) = Len(lastEdit.before)
            /\ \A k \in 1..Len(alive) :
                  alive[k] = IF k = lastEdit.idx /\ lastEdit.n = 1
                             THEN ~lastEdit.before[k] ELSE lastEdit.before[k])
    /\ [][\A idx \in 1..Len(cells) : toggleAlive(idx) =>
              /\ ~readonly /\ ~readonly'
              /\ cells' = cells /\ size' = size /\ timers' = timers]_vars

\* a live cell was clicked dead and then clicked alive again
C14_Witness ==
    /\ lastEdit.op = "toggle" /\ lastEdit.n = 2
    /\ alive[lastEdit.idx] /\ ~readonly

\* C15: Reset, possible only while Stopped, leaves every cell of the grid
\* dead and leaves the cells' coordinates, the size and the Stopped state as
\* they were.
C15_ResetKillsEveryCell ==
    /\ [](lastEdit.op = "reset" =>
            /\ Len(alive) = Len(cells)
            /\ \A k \in 1..Len(cells) : ~alive[k])
    /\ [][handleReset =>
              /\ ~readonly /\ ~readonly'
              /\ cells' = cells /\ size' = size /\ timers' = timers]_vars

\* Reset was clicked on a grid with a live cell
C15_Witness ==
    /\ lastEdit.op = "reset" /\ ~readonly
    /\ \E k \in 1..Len(cells) : lastEdit.before[k] /\ ~alive[k]

\* C16: while the page is open and Running, the interval's generation comes
\* again unless Stop is clicked or the page is closed (no behaviour stays
\* Running for ever on the same generation count while the interval's budget
\* of MaxGenerations lasts), and nothing but that generation changes a cell
\* while Running.
C16_TimerKeepsAdvancing ==
    /\ []<>(~readonly \/ ~mounted \/ generation = MaxGenerations)
    /\ [][(readonly /\ alive' # alive) =>
              (timers > 0 /\ generation' = generation + 1)]_vars

\* still Running when the interval has fired MaxGenerations times
C16_Witness ==
    /\ mounted /\ readonly /\ timers > 0
    /\ generation = MaxGenerations /\ lastTick.ran

\* C17: in every Stopped state what handleStop does changes nothing:
\* readonly is false already, callback.current names no live interval, so
\* clearInterval ends none, and no interval is live before or after.
C17_StopWhileStoppedIsNoOp ==
    ~readonly =>
        /\ timers = 0
        /\ clearInterval(timers, callback) = timers
        /\ cleared(callback) = callback
        /\ useImperativeHandle(handles, alive, FALSE) = handles

\* Stopped by Stop after a generation: callback.current holds the id of the
\* interval that Stop cleared
C17_Witness ==
    /\ mounted /\ ~readonly /\ lastTick.ran
    /\ callback = "dead" /\ timers = 0

\* C18: once the App component is unmounted, from a Stopped or a Running
\* state, no interval is live and no generation comes any more.
C18_UnmountReleasesTimer ==
    /\ [](~mounted => timers = 0)
    /\ [][~mounted => (generation' = generation /\ alive' = alive)]_vars

\* unmounted while Running, with generations left in the interval's budget
C18_Witness ==
    /\ ~mounted /\ readonly /\ lastTick.ran
    /\ generation < MaxGenerations

\* C19: while the page is open an interval is live exactly when readonly is
\* true, callback.current names it, and never more than one is live.
C19_TimerLiveIffReadonly ==
    /\ timers \in {0, 1}
    /\ mounted => /\ (timers = 1) = readonly
                  /\ (callback = "live") = readonly

\* just started: Running on the one interval, which has not fired yet since
\* Start
C19_Witness ==
    /\ mounted /\ readonly /\ timers = 1 /\ callback = "live"
    /\ ~lastTick.ran

\* C20: from Start to the Stop that follows neither the size value nor the
\* cells of the grid change, and the size the interval's handleNewGeneration
\* works with is, at every generation, the value the size input has and had
\* at Start.
C20_SizeFixedWhileRunning ==
    /\ [](timers > 0 => closure = {size})
    /\ [][readonly =>
              (size' = size /\ cells' = cells /\ closure' \subseteq closure)]_vars

\* Running after a generation that worked with a size typed after the grid
\* was generated
C20_Witness ==
    /\ mounted /\ readonly /\ lastTick.ran
    /\ closure = {size} /\ size # SideOf(cells)

====
